---- MODULE Spec2Model ----
(***************************************************************************)
(* State machine of the rtobj viewer (src/main.cpp): main() and run_app(). *)
(* Every action is one statement group of the source; pc is the position   *)
(* of the single thread of control.  The external libraries (SDL, the GL   *)
(* loader, the OBJ parser, OSPRay, Dear ImGui) are modelled by the         *)
(* outcomes their calls can hand back to this code.                        *)
(***************************************************************************)
EXTENDS Integers, Sequences, FiniteSets, TLC

VARIABLES
    pc,             \* position of the thread of control
    argc,           \* main's argc
    out,            \* what was written to std::cout / std::cerr, in order
    status,         \* "running", "exited" (return from main / std::exit), "aborted"
    exit_code,      \* the process exit status once status = "exited"
    called,         \* the set of library initialisation calls made so far
    failures,       \* the initialisation calls that reported failure
    acquired,       \* process-wide resources acquired, in order
    released,       \* process-wide resources torn down, in order
    window,         \* SDL_Window *window: "unset", "NULL" or "valid"
    gl_context,     \* SDL_GLContext gl_context: "unset", "NULL" or "valid"
    warn, err, ret, \* the outputs of tinyobj::LoadObj
    camera,         \* the ArcballCamera pose
    osp_camera,     \* the parameters held by the OSPRay camera object
    cameraCommits,  \* number of ospCommit(osp_camera) calls
    worldCommits,   \* number of ospCommit(world) calls (scene geometry set)
    fbCreates,      \* number of ospNewFrameBuffer calls
    renders,        \* number of completed ospRenderFrame calls
    inFlight,       \* number of ospRenderFrame calls that have not returned
    fbImage,        \* content of the OSPRay frame buffer
    fbMapped,       \* is the OSPRay frame buffer currently mapped
    fb,             \* the pointer fb of the loop body: "unset", "mapped", "unmapped"
    maps, unmaps,   \* number of ospMapFrameBuffer / ospUnmapFrameBuffer calls
    staleRead,      \* was fb ever read while it did not point to a mapped buffer
    texture,        \* content of render_texture
    done,           \* the loop's termination flag
    frame,          \* number of loop iterations started
    event,          \* the SDL_Event of the loop body
    polled,         \* events SDL_PollEvent returned in this iteration
    uiSeen,         \* events forwarded to ImGui_ImplSDL2_ProcessEvent in this iteration
    inspected,      \* events the application's own tests have looked at in this iteration
    mouseCalls,     \* camera.mouse calls in this iteration
    wantKb,         \* io.WantCaptureKeyboard
    wantMouse,      \* io.WantCaptureMouse
    steps           \* the phases of this iteration completed so far, in order

vars == <<pc, argc, out, status, exit_code, called, failures, acquired, released,
          window, gl_context, warn, err, ret, camera, osp_camera, cameraCommits,
          worldCommits, fbCreates, renders, inFlight, fbImage, fbMapped, fb, maps,
          unmaps, staleRead, texture, done, frame, event, polled, uiSeen,
          inspected, mouseCalls, wantKb, wantMouse, steps>>

mainVars == <<argc, called, failures, acquired, released, window, gl_context>>
loadVars == <<warn, err, ret>>
ospVars  == <<osp_camera, cameraCommits, worldCommits, fbCreates, renders, inFlight,
              fbImage, fbMapped, fb, maps, unmaps, staleRead, texture>>
loopVars == <<done, frame, event, polled, uiSeen, inspected, mouseCalls, wantKb,
              wantMouse, steps>>
procVars == <<out, status, exit_code>>

(***************************************************************************)
(* Bounds of the model.                                                    *)
(***************************************************************************)
MaxArgc   == 2      \* argc ranges over 1..MaxArgc
MaxShapes == 1      \* shapes the parser may return
MaxFrames == 2      \* loop iterations explored
MaxPoll   == 2      \* events SDL_PollEvent may return in one iteration
NumPoses  == 3      \* distinct camera poses

(***************************************************************************)
(* The command line.                                                       *)
(***************************************************************************)
Argv == <<"rtobj", "model.obj", "extra">>
argv(i) == Argv[i + 1]

\* The exit status the parent sees for main returning v / std::exit(v).
ExitStatus(v) == v % 256

Mentions(text, word) == \E i \in 1..Len(text) : text[i] = word

Line(stream, text) == [stream |-> stream, text |-> text]

\* The error texts the OBJ parser may hand back: none, one naming the file,
\* one that does not.
ErrTexts == { <<>>,
              <<"Cannot open file [", argv(1), "]">>,
              <<"Failed parse `f' line">> }

(***************************************************************************)
(* The state at process start.                                             *)
(***************************************************************************)
NoEvent == [type |-> "none", sym |-> "none", wev |-> "none", windowID |-> 0]

\* The process is launched with its name as argv[0], so argc >= 1; a launch
\* with an empty argument vector (argc = 0, argv[0] null) is not modelled.
\* io.WantCaptureKeyboard and io.WantCaptureMouse start false.
Init ==
    /\ pc = "main"
    /\ argc \in 1..MaxArgc
    /\ out = <<>>
    /\ status = "running"
    /\ exit_code = 0
    /\ called = {}
    /\ failures = {}
    /\ acquired = <<>>
    /\ released = <<>>
    /\ window = "unset"
    /\ gl_context = "unset"
    /\ warn = FALSE
    /\ err = <<>>
    /\ ret = FALSE
    /\ camera = 0
    /\ osp_camera = [pos |-> "unset", dir |-> "unset", up |-> "unset"]
    /\ cameraCommits = 0
    /\ worldCommits = 0
    /\ fbCreates = 0
    /\ renders = 0
    /\ inFlight = 0
    /\ fbImage = "none"
    /\ fbMapped = FALSE
    /\ fb = "unset"
    /\ maps = 0
    /\ unmaps = 0
    /\ staleRead = FALSE
    /\ texture = "none"
    /\ done = FALSE
    /\ frame = 0
    /\ event = NoEvent
    /\ polled = 0
    /\ uiSeen = 0
    /\ inspected = 0
    /\ mouseCalls = 0
    /\ wantKb = FALSE
    /\ wantMouse = FALSE
    /\ steps = <<>>

(***************************************************************************)
(* Leaving the process.                                                    *)
(***************************************************************************)
\* return v from main, or std::exit(v): the process ends with status v.
Return(v) ==
    /\ status' = "exited"
    /\ exit_code' = ExitStatus(v)
    /\ pc' = "halt"

\* An exception nothing catches: std::terminate, the process aborts.
Terminate ==
    /\ status' = "aborted"
    /\ exit_code' = exit_code
    /\ pc' = "halt"

(***************************************************************************)
(* main()                                                                  *)
(***************************************************************************)
UsageLine == Line("stdout", <<"Usage: ", argv(0), " <obj file>\n">>)

\* The argument test without its return: the usage is printed and main goes on.
CheckArgs_NoReturn ==
    /\ pc = "main"
    /\ out' = IF argc < 2 THEN Append(out, UsageLine) ELSE out
    /\ pc' = "SDL_Init"
    /\ UNCHANGED <<status, exit_code, mainVars, loadVars, camera, ospVars, loopVars>>

CheckArgs ==
    /\ pc = "main"
    /\ IF argc < 2
       THEN /\ out' = Append(out, UsageLine)
            /\ Return(1)
       ELSE /\ pc' = "SDL_Init"
            /\ UNCHANGED procVars
    /\ UNCHANGED <<mainVars, loadVars, camera, ospVars, loopVars>>

SDLInit ==
    /\ pc = "SDL_Init"
    /\ called' = called \cup {"SDL_Init"}
    /\ \E ok \in BOOLEAN :
         IF ok
         THEN /\ acquired' = Append(acquired, "SDL")
              /\ pc' = "SDL_CreateWindow"
              /\ UNCHANGED <<procVars, failures>>
         ELSE /\ failures' = failures \cup {"SDL_Init"}
              /\ out' = Append(out, Line("stderr", <<"Failed to init SDL: ", "SDL_GetError()", "\n">>))
              /\ Return(-1)
              /\ UNCHANGED acquired
    /\ UNCHANGED <<argc, released, window, gl_context, loadVars, camera, ospVars, loopVars>>

\* SDL_CreateWindow: the result is stored and not tested.
CreateWindow ==
    /\ pc = "SDL_CreateWindow"
    /\ called' = called \cup {"SDL_CreateWindow"}
    /\ \E w \in {"NULL", "valid"} :
         /\ window' = w
         /\ acquired' = IF w = "valid" THEN Append(acquired, "window") ELSE acquired
         /\ failures' = IF w = "NULL" THEN failures \cup {"SDL_CreateWindow"} ELSE failures
    /\ pc' = "SDL_GL_CreateContext"
    /\ UNCHANGED <<procVars, argc, released, gl_context, loadVars, camera, ospVars, loopVars>>

\* SDL_GL_CreateContext, SDL_GL_SetSwapInterval, SDL_GL_MakeCurrent: the
\* result is stored and not tested.  No context is created for a NULL window.
CreateContext ==
    /\ pc = "SDL_GL_CreateContext"
    /\ called' = called \cup {"SDL_GL_CreateContext"}
    /\ \E c \in (IF window = "valid" THEN {"NULL", "valid"} ELSE {"NULL"}) :
         /\ gl_context' = c
         /\ acquired' = IF c = "valid" THEN Append(acquired, "gl_context") ELSE acquired
         /\ failures' = IF c = "NULL" THEN failures \cup {"SDL_GL_CreateContext"} ELSE failures
    /\ pc' = "ogl_LoadFunctions"
    /\ UNCHANGED <<procVars, argc, released, window, loadVars, camera, ospVars, loopVars>>

\* ogl_LoadFunctions() == ogl_LOAD_FAILED is the one test of the GL set-up.
\* Whether the loader fails when no context is current is the platform's
\* choice (a GLX loader hands out entry points without one), so either
\* result may follow a NULL gl_context.
LoadGL ==
    /\ pc = "ogl_LoadFunctions"
    /\ called' = called \cup {"ogl_LoadFunctions"}
    /\ \E r \in {"ogl_LOAD_FAILED", "ogl_LOAD_SUCCEEDED"} :
         IF r = "ogl_LOAD_FAILED"
         THEN /\ failures' = failures \cup {"ogl_LoadFunctions"}
              /\ out' = Append(out, Line("stderr", <<"Failed to initialize OpenGL\n">>))
              /\ Return(1)
         ELSE /\ pc' = "ImGui_Init"
              /\ UNCHANGED <<procVars, failures>>
    /\ UNCHANGED <<argc, acquired, released, window, gl_context, loadVars, camera,
                   ospVars, loopVars>>

\* ImGui::CreateContext .. ImGui_ImplOpenGL3_Init, then the call of run_app.
ImGuiInit ==
    /\ pc = "ImGui_Init"
    /\ called' = called \cup {"ImGui_Init"}
    /\ acquired' = Append(acquired, "ImGui")
    /\ pc' = "LoadObj"
    /\ UNCHANGED <<procVars, argc, failures, released, window, gl_context, loadVars,
                   camera, ospVars, loopVars>>

(***************************************************************************)
(* run_app(): model load and scene set-up                                  *)
(***************************************************************************)
WarningLine(w) == Line("stdout", <<"Warning loading model: ", w, "\n">>)
ErrorLine(e) == Line("stderr", <<"Error loading model: ">> \o e \o <<"\n">>)
FailedLine == Line("stderr", <<"Failed to load OBJ model '", argv(1), "', aborting\n">>)

\* What the three tests after LoadObj print for the outputs (w, e, r).
LoadLines(w, e, r) ==
    (IF w THEN <<WarningLine("warn")>> ELSE <<>>)
    \o (IF e # <<>> THEN <<ErrorLine(e)>>
        ELSE IF ~r THEN <<FailedLine>>
        ELSE <<>>)

\* The load without the test of LoadObj's return value.
LoadModel_NoRetTest ==
    /\ pc = "LoadObj"
    /\ called' = called \cup {"LoadObj"}
    /\ \E w \in BOOLEAN, e \in ErrTexts, r \in BOOLEAN :
         /\ warn' = w
         /\ err' = e
         /\ ret' = r
         /\ out' = out \o (IF w THEN <<WarningLine("warn")>> ELSE <<>>)
                       \o (IF e # <<>> THEN <<ErrorLine(e)>> ELSE <<>>)
         /\ IF e # <<>>
            THEN Return(1)
            ELSE /\ pc' = "flatten"
                 /\ UNCHANGED <<status, exit_code>>
    /\ UNCHANGED <<argc, failures, acquired, released, window, gl_context, camera,
                   ospVars, loopVars>>

\* tinyobj::LoadObj(.., &warn, &err, argv[1]) and the tests of warn, err, ret.
LoadModel ==
    /\ pc = "LoadObj"
    /\ called' = called \cup {"LoadObj"}
    /\ \E w \in BOOLEAN, e \in ErrTexts, r \in BOOLEAN :
         /\ warn' = w
         /\ err' = e
         /\ ret' = r
         /\ out' = out \o LoadLines(w, e, r)
         /\ IF e # <<>> \/ ~r
            THEN Return(1)
            ELSE /\ pc' = "flatten"
                 /\ UNCHANGED <<status, exit_code>>
    /\ UNCHANGED <<argc, failures, acquired, released, window, gl_context, camera,
                   ospVars, loopVars>>

ShapeLine(s) == Line("stdout", <<"Loading shape ", s, ", has ", "n", " triangles\n">>)

\* The loop over shapes: one line per shape, the indices gathered into one list.
FlattenIndices ==
    /\ pc = "flatten"
    /\ \E n \in 0..MaxShapes :
         out' = out \o [s \in 1..n |-> ShapeLine(s)]
    /\ pc' = "ospInit"
    /\ UNCHANGED <<status, exit_code, mainVars, loadVars, camera, ospVars, loopVars>>

\* ospInit: on failure a line on std::cout and a runtime_error nothing catches.
OspInit ==
    /\ pc = "ospInit"
    /\ called' = called \cup {"ospInit"}
    /\ \E r \in {"OSP_NO_ERROR", "OSP_ERROR"} :
         IF r # "OSP_NO_ERROR"
         THEN /\ failures' = failures \cup {"ospInit"}
              /\ out' = Append(out, Line("stdout", <<"Failed to init OSPRay\n">>))
              /\ Terminate
         ELSE /\ pc' = "set_scene"
              /\ UNCHANGED <<procVars, failures>>
    /\ UNCHANGED <<argc, acquired, released, window, gl_context, loadVars, camera,
                   ospVars, loopVars>>

\* Vertex and index data, the triangle geometry and the world, each committed.
SetScene ==
    /\ pc = "set_scene"
    /\ worldCommits' = worldCommits + 1
    /\ pc' = "camera_setup"
    /\ UNCHANGED <<procVars, mainVars, loadVars, camera, osp_camera, cameraCommits,
                   fbCreates, renders, inFlight, fbImage, fbMapped, fb, maps, unmaps,
                   staleRead, texture, loopVars>>

\* The read accessors of the arcball camera.
eye_pos(c) == <<"eye", c>>
eye_dir(c) == <<"dir", c>>
up_dir(c)  == <<"up", c>>

\* ospSet3fv of pos, dir and up from the camera, and ospCommit(osp_camera).
PushCamera ==
    /\ osp_camera' = [pos |-> eye_pos(camera), dir |-> eye_dir(camera), up |-> up_dir(camera)]
    /\ cameraCommits' = cameraCommits + 1

CameraSetup ==
    /\ pc = "camera_setup"
    /\ PushCamera
    /\ pc' = "renderer_setup"
    /\ UNCHANGED <<procVars, mainVars, loadVars, camera, worldCommits, fbCreates,
                   renders, inFlight, fbImage, fbMapped, fb, maps, unmaps, staleRead,
                   texture, loopVars>>

\* The raycast renderer is given the world and the camera and is committed.
RendererSetup ==
    /\ pc = "renderer_setup"
    /\ pc' = "new_framebuffer"
    /\ UNCHANGED <<procVars, mainVars, loadVars, camera, ospVars, loopVars>>

NewFrameBuffer ==
    /\ pc = "new_framebuffer"
    /\ fbCreates' = fbCreates + 1
    /\ fbImage' = "uninitialised"
    /\ pc' = "display_setup"
    /\ UNCHANGED <<procVars, mainVars, loadVars, camera, osp_camera, cameraCommits,
                   worldCommits, renders, inFlight, fbMapped, fb, maps, unmaps,
                   staleRead, texture, loopVars>>

\* The display shader, render_texture and its storage, the vertex array.
DisplaySetup ==
    /\ pc = "display_setup"
    /\ texture' = "allocated"
    /\ pc' = "loop_init"
    /\ UNCHANGED <<procVars, mainVars, loadVars, camera, osp_camera, cameraCommits,
                   worldCommits, fbCreates, renders, inFlight, fbImage, fbMapped, fb,
                   maps, unmaps, staleRead, loopVars>>

LoopInit ==
    /\ pc = "loop_init"
    /\ done' = FALSE
    /\ pc' = "while"
    /\ UNCHANGED <<procVars, mainVars, loadVars, camera, ospVars, frame, event, polled,
                   uiSeen, inspected, mouseCalls, wantKb, wantMouse, steps>>

(***************************************************************************)
(* run_app(): the application loop                                         *)
(***************************************************************************)
Ev(t, k, w, id) == [type |-> t, sym |-> k, wev |-> w, windowID |-> id]

\* The events SDL_PollEvent may return.  Window 1 is the viewer's window,
\* window 2 some other window of the process.
Events == { Ev("SDL_QUIT", "none", "none", 0),
            Ev("SDL_KEYDOWN", "SDLK_ESCAPE", "none", 1),
            Ev("SDL_KEYDOWN", "SDLK_a", "none", 1),
            Ev("SDL_KEYUP", "SDLK_ESCAPE", "none", 1),
            Ev("SDL_WINDOWEVENT", "none", "SDL_WINDOWEVENT_CLOSE", 1),
            Ev("SDL_WINDOWEVENT", "none", "SDL_WINDOWEVENT_CLOSE", 2),
            Ev("SDL_WINDOWEVENT", "none", "SDL_WINDOWEVENT_RESIZED", 1),
            Ev("SDL_MOUSEMOTION", "none", "none", 1),
            Ev("SDL_MOUSEWHEEL", "none", "none", 1) }

\* SDL_GetWindowID: the id of a window, 0 for no window.
SDL_GetWindowID(w) == IF w = "valid" THEN 1 ELSE 0

\* camera.mouse(event, dt): a motion event rotates, a wheel event zooms.
camera_mouse(c, ev) ==
    IF ev.type = "SDL_MOUSEMOTION" THEN (c + 1) % NumPoses
    ELSE IF ev.type = "SDL_MOUSEWHEEL" THEN (c + 2) % NumPoses
    ELSE c

QuitRequested(ev) == ev.type = "SDL_QUIT"

\* The escape test without the keyboard-capture guard.
EscapePressed_NoCapture(ev, capture) ==
    ev.type = "SDL_KEYDOWN" /\ ev.sym = "SDLK_ESCAPE"

EscapePressed(ev, capture) ==
    ~capture /\ ev.type = "SDL_KEYDOWN" /\ ev.sym = "SDLK_ESCAPE"

\* The close test without the comparison of window ids.
WindowClosed_AnyWindow(ev, w) ==
    ev.type = "SDL_WINDOWEVENT" /\ ev.wev = "SDL_WINDOWEVENT_CLOSE"

WindowClosed(ev, w) ==
    /\ ev.type = "SDL_WINDOWEVENT"
    /\ ev.wev = "SDL_WINDOWEVENT_CLOSE"
    /\ ev.windowID = SDL_GetWindowID(w)

PointerToCamera(ev, capture) ==
    ~capture /\ (ev.type = "SDL_MOUSEMOTION" \/ ev.type = "SDL_MOUSEWHEEL")

\* while (!done), condition true: the body starts.
LoopEnter ==
    /\ pc = "while"
    /\ ~done
    /\ frame < MaxFrames
    /\ frame' = frame + 1
    /\ polled' = 0
    /\ uiSeen' = 0
    /\ inspected' = 0
    /\ mouseCalls' = 0
    /\ steps' = <<>>
    /\ pc' = "poll"
    /\ UNCHANGED <<procVars, mainVars, loadVars, camera, ospVars, done, event, wantKb,
                   wantMouse>>

\* while (!done), condition false: run_app returns to main.
LoopExit ==
    /\ pc = "while"
    /\ done
    /\ pc' = "ImGui_Shutdown"
    /\ UNCHANGED <<procVars, mainVars, loadVars, camera, ospVars, loopVars>>

\* SDL_PollEvent(&event) returns 1 and fills event.
PollEvent ==
    /\ pc = "poll"
    /\ polled < MaxPoll
    /\ \E e \in Events : event' = e
    /\ polled' = polled + 1
    /\ pc' = "process_event"
    /\ UNCHANGED <<procVars, mainVars, loadVars, camera, ospVars, done, frame, uiSeen,
                   inspected, mouseCalls, wantKb, wantMouse, steps>>

\* SDL_PollEvent(&event) returns 0: the drain is over.  event is not read
\* again before the next poll fills it.
PollEmpty ==
    /\ pc = "poll"
    /\ event' = NoEvent
    /\ steps' = Append(steps, "drain")
    /\ pc' = "new_frame"
    /\ UNCHANGED <<procVars, mainVars, loadVars, camera, ospVars, done, frame, polled,
                   uiSeen, inspected, mouseCalls, wantKb, wantMouse>>

\* The event handling that does not hand the event to the UI overlay.
ProcessEvent_Skip ==
    /\ pc = "process_event"
    /\ pc' = "inspect"
    /\ UNCHANGED <<procVars, mainVars, loadVars, camera, ospVars, loopVars>>

\* ImGui_ImplSDL2_ProcessEvent(&event)
ProcessEvent ==
    /\ pc = "process_event"
    /\ uiSeen' = uiSeen + 1
    /\ pc' = "inspect"
    /\ UNCHANGED <<procVars, mainVars, loadVars, camera, ospVars, done, frame, event,
                   polled, inspected, mouseCalls, wantKb, wantMouse, steps>>

\* The four tests the application makes of one event.
Inspect ==
    /\ pc = "inspect"
    /\ done' = (done \/ QuitRequested(event) \/ EscapePressed(event, wantKb)
                     \/ WindowClosed(event, window))
    /\ IF PointerToCamera(event, wantMouse)
       THEN /\ camera' = camera_mouse(camera, event)
            /\ mouseCalls' = mouseCalls + 1
       ELSE UNCHANGED <<camera, mouseCalls>>
    /\ inspected' = inspected + 1
    /\ pc' = "poll"
    /\ UNCHANGED <<procVars, mainVars, loadVars, ospVars, frame, event, polled, uiSeen,
                   wantKb, wantMouse, steps>>

\* ImGui_ImplOpenGL3_NewFrame .. ImGui::Render and glViewport: the overlay
\* starts its frame (and decides whether it wants keyboard and mouse), the
\* debug panel with the frame timing is rebuilt, the draw data is finalised.
NewFrame ==
    /\ pc = "new_frame"
    /\ wantKb' \in BOOLEAN
    /\ wantMouse' \in BOOLEAN
    /\ steps' = Append(steps, "panel")
    /\ pc' = "camera_push"
    /\ UNCHANGED <<procVars, mainVars, loadVars, camera, ospVars, done, frame, event,
                   polled, uiSeen, inspected, mouseCalls>>

\* The per-frame camera push that also commits the world again.
CamPush_RecommitWorld ==
    /\ pc = "camera_push"
    /\ PushCamera
    /\ worldCommits' = worldCommits + 1
    /\ steps' = Append(steps, "camera_push")
    /\ pc' = "clear"
    /\ UNCHANGED <<procVars, mainVars, loadVars, camera, fbCreates, renders, inFlight,
                   fbImage, fbMapped, fb, maps, unmaps, staleRead, texture, done, frame,
                   event, polled, uiSeen, inspected, mouseCalls, wantKb, wantMouse>>

\* cam_pos, cam_dir, cam_up are read from the camera, written to osp_camera,
\* osp_camera is committed, the renderer is given the camera and committed.
CamPush ==
    /\ pc = "camera_push"
    /\ PushCamera
    /\ steps' = Append(steps, "camera_push")
    /\ pc' = "clear"
    /\ UNCHANGED <<procVars, mainVars, loadVars, camera, worldCommits, fbCreates,
                   renders, inFlight, fbImage, fbMapped, fb, maps, unmaps, staleRead,
                   texture, done, frame, event, polled, uiSeen, inspected, mouseCalls,
                   wantKb, wantMouse>>

\* ospFrameBufferClear(osp_fb, OSP_FB_COLOR)
ClearFrameBuffer ==
    /\ pc = "clear"
    /\ fbImage' = "cleared"
    /\ pc' = "render"
    /\ UNCHANGED <<procVars, mainVars, loadVars, camera, osp_camera, cameraCommits,
                   worldCommits, fbCreates, renders, inFlight, fbMapped, fb, maps,
                   unmaps, staleRead, texture, loopVars>>

\* ospRenderFrame is entered.
RenderBegin ==
    /\ pc = "render"
    /\ inFlight' = inFlight + 1
    /\ pc' = "rendering"
    /\ UNCHANGED <<procVars, mainVars, loadVars, camera, osp_camera, cameraCommits,
                   worldCommits, fbCreates, renders, fbImage, fbMapped, fb, maps,
                   unmaps, staleRead, texture, loopVars>>

\* ospRenderFrame returns: the frame buffer holds the image of the committed camera.
RenderEnd ==
    /\ pc = "rendering"
    /\ inFlight' = inFlight - 1
    /\ renders' = renders + 1
    /\ fbImage' = <<"image", osp_camera.pos>>
    /\ steps' = Append(steps, "render")
    /\ pc' = "map"
    /\ UNCHANGED <<procVars, mainVars, loadVars, camera, osp_camera, cameraCommits,
                   worldCommits, fbCreates, fbMapped, fb, maps, unmaps, staleRead,
                   texture, done, frame, event, polled, uiSeen, inspected, mouseCalls,
                   wantKb, wantMouse>>

\* fb = ospMapFrameBuffer(osp_fb, OSP_FB_COLOR)
MapFrameBuffer ==
    /\ pc = "map"
    /\ fbMapped' = TRUE
    /\ fb' = "mapped"
    /\ maps' = maps + 1
    /\ pc' = "upload"
    /\ UNCHANGED <<procVars, mainVars, loadVars, camera, osp_camera, cameraCommits,
                   worldCommits, fbCreates, renders, inFlight, fbImage, unmaps,
                   staleRead, texture, loopVars>>

\* glTexSubImage2D(.., fb): the texture is filled from what fb points to; a
\* pointer to no mapped buffer reads anything.
UploadTexture ==
    /\ pc = "upload"
    /\ IF fb = "mapped"
       THEN /\ texture' = fbImage
            /\ UNCHANGED staleRead
       ELSE /\ texture' \in {fbImage, "garbage"}
            /\ staleRead' = TRUE
    /\ pc' = "unmap"
    /\ UNCHANGED <<procVars, mainVars, loadVars, camera, osp_camera, cameraCommits,
                   worldCommits, fbCreates, renders, inFlight, fbImage, fbMapped, fb,
                   maps, unmaps, loopVars>>

\* The unmap that is left out: fb stays mapped.
UnmapFrameBuffer_Forgotten ==
    /\ pc = "unmap"
    /\ pc' = "draw"
    /\ UNCHANGED <<procVars, mainVars, loadVars, camera, ospVars, loopVars>>

\* ospUnmapFrameBuffer(fb, osp_fb)
UnmapFrameBuffer ==
    /\ pc = "unmap"
    /\ fbMapped' = FALSE
    /\ fb' = "unmapped"
    /\ unmaps' = unmaps + 1
    /\ pc' = "draw"
    /\ UNCHANGED <<procVars, mainVars, loadVars, camera, osp_camera, cameraCommits,
                   worldCommits, fbCreates, renders, inFlight, fbImage, maps, staleRead,
                   texture, loopVars>>

\* glClear, glUseProgram, glDrawArrays: the texture is drawn full-screen.
DrawQuad ==
    /\ pc = "draw"
    /\ steps' = Append(steps, "blit")
    /\ pc' = "overlay"
    /\ UNCHANGED <<procVars, mainVars, loadVars, camera, ospVars, done, frame, event,
                   polled, uiSeen, inspected, mouseCalls, wantKb, wantMouse>>

\* ImGui_ImplOpenGL3_RenderDrawData(ImGui::GetDrawData())
DrawOverlay ==
    /\ pc = "overlay"
    /\ steps' = Append(steps, "overlay")
    /\ pc' = "swap"
    /\ UNCHANGED <<procVars, mainVars, loadVars, camera, ospVars, done, frame, event,
                   polled, uiSeen, inspected, mouseCalls, wantKb, wantMouse>>

\* SDL_GL_SwapWindow(window), then back to the loop test.
SwapWindow ==
    /\ pc = "swap"
    /\ steps' = Append(steps, "present")
    /\ pc' = "while"
    /\ UNCHANGED <<procVars, mainVars, loadVars, camera, ospVars, done, frame, event,
                   polled, uiSeen, inspected, mouseCalls, wantKb, wantMouse>>

(***************************************************************************)
(* main(): teardown after run_app returns                                  *)
(***************************************************************************)
Release(r) == released' = Append(released, r)

\* ImGui_ImplOpenGL3_Shutdown, ImGui_ImplSDL2_Shutdown, ImGui::DestroyContext
ImGuiShutdown ==
    /\ pc = "ImGui_Shutdown"
    /\ Release("ImGui")
    /\ pc' = "SDL_GL_DeleteContext"
    /\ UNCHANGED <<procVars, argc, called, failures, acquired, window, gl_context,
                   loadVars, camera, ospVars, loopVars>>

DeleteContext ==
    /\ pc = "SDL_GL_DeleteContext"
    /\ IF gl_context = "valid" THEN Release("gl_context") ELSE UNCHANGED released
    /\ pc' = "SDL_DestroyWindow"
    /\ UNCHANGED <<procVars, argc, called, failures, acquired, window, gl_context,
                   loadVars, camera, ospVars, loopVars>>

DestroyWindow ==
    /\ pc = "SDL_DestroyWindow"
    /\ IF window = "valid" THEN Release("window") ELSE UNCHANGED released
    /\ pc' = "SDL_Quit"
    /\ UNCHANGED <<procVars, argc, called, failures, acquired, window, gl_context,
                   loadVars, camera, ospVars, loopVars>>

SDLQuit ==
    /\ pc = "SDL_Quit"
    /\ Release("SDL")
    /\ pc' = "return"
    /\ UNCHANGED <<procVars, argc, called, failures, acquired, window, gl_context,
                   loadVars, camera, ospVars, loopVars>>

MainReturn ==
    /\ pc = "return"
    /\ Return(0)
    /\ UNCHANGED <<out, mainVars, loadVars, camera, ospVars, loopVars>>

(***************************************************************************)
(* The specification.                                                      *)
(***************************************************************************)
Next ==
    \/ CheckArgs
    \/ SDLInit
    \/ CreateWindow
    \/ CreateContext
    \/ LoadGL
    \/ ImGuiInit
    \/ LoadModel
    \/ FlattenIndices
    \/ OspInit
    \/ SetScene
    \/ CameraSetup
    \/ RendererSetup
    \/ NewFrameBuffer
    \/ DisplaySetup
    \/ LoopInit
    \/ LoopEnter
    \/ LoopExit
    \/ PollEvent
    \/ PollEmpty
    \/ ProcessEvent
    \/ Inspect
    \/ NewFrame
    \/ CamPush
    \/ ClearFrameBuffer
    \/ RenderBegin
    \/ RenderEnd
    \/ MapFrameBuffer
    \/ UploadTexture
    \/ UnmapFrameBuffer
    \/ DrawQuad
    \/ DrawOverlay
    \/ SwapWindow
    \/ ImGuiShutdown
    \/ DeleteContext
    \/ DestroyWindow
    \/ SDLQuit
    \/ MainReturn

Spec == Init /\ [][Next]_vars

(***************************************************************************)
(* Vocabulary of the properties.                                           *)
(***************************************************************************)
IsPrefix(s, t) == Len(s) <= Len(t) /\ \A i \in 1..Len(s) : s[i] = t[i]

Reverse(s) == [i \in 1..Len(s) |-> s[Len(s) + 1 - i]]

Exited(v) == status = "exited" /\ exit_code = v

NonZeroEnd == status = "aborted" \/ (status = "exited" /\ exit_code # 0)

OnStderr(word) ==
    \E i \in 1..Len(out) : out[i].stream = "stderr" /\ Mentions(out[i].text, word)

OnStdout(word) ==
    \E i \in 1..Len(out) : out[i].stream = "stdout" /\ Mentions(out[i].text, word)

LoopEntered == frame >= 1

Loaded == "LoadObj" \in called

IsEscapeDown(ev) == ev.type = "SDL_KEYDOWN" /\ ev.sym = "SDLK_ESCAPE"

IsOwnWindowClose(ev) ==
    /\ ev.type = "SDL_WINDOWEVENT"
    /\ ev.wev = "SDL_WINDOWEVENT_CLOSE"
    /\ window = "valid"
    /\ ev.windowID = 1

\* The phases of one iteration, in the order the loop is to perform them.
Order == <<"drain", "panel", "camera_push", "render", "blit", "overlay", "present">>

\* How many phases are complete when control is at p inside the loop body.
PhasesBefore(p) ==
    CASE p \in {"poll", "process_event", "inspect"} -> 0
      [] p = "new_frame" -> 1
      [] p = "camera_push" -> 2
      [] p \in {"clear", "render", "rendering"} -> 3
      [] p \in {"map", "upload", "unmap", "draw"} -> 4
      [] p = "overlay" -> 5
      [] p = "swap" -> 6
      [] OTHER -> 7

InLoopBody == pc \in {"poll", "process_event", "inspect", "new_frame", "camera_push",
                      "clear", "render", "rendering", "map", "upload", "unmap", "draw",
                      "overlay", "swap"}

(***************************************************************************)
(* C1.  Started with argc < 2, the viewer prints one usage line naming     *)
(* argv[0] and exits with status 1, and no window, GL context, UI overlay  *)
(* or ray-tracing initialisation has been attempted.                       *)
(***************************************************************************)
C1_UsageAndExit ==
    (argc < 2 /\ pc # "main") =>
        /\ Exited(1)
        /\ Len(out) = 1
        /\ Mentions(out[1].text, "Usage: ")
        /\ Mentions(out[1].text, argv(0))
        /\ called = {}
        /\ acquired = <<>>
        /\ window = "unset"
        /\ gl_context = "unset"

C1_Witness == argc < 2 /\ status = "exited" /\ exit_code = 1 /\ Len(out) = 1

(***************************************************************************)
(* C2 as stated.  After the load, a non-empty error text or a failure      *)
(* return means: an error naming the file path is on stderr, the exit      *)
(* status is 1 and the loop was never entered; a warning alone is logged   *)
(* and the load does not end the process.                                  *)
(***************************************************************************)
C2_Original ==
    Loaded =>
        /\ (err # <<>> \/ ~ret) =>
              Exited(1) /\ ~LoopEntered /\ OnStderr(argv(1))
        /\ (warn /\ err = <<>> /\ ret) =>
              /\ OnStdout("Warning loading model: ")
              /\ status = "exited" => (exit_code = 0 /\ LoopEntered)

(***************************************************************************)
(* C2 as amended.  A non-empty error text is printed to stderr as the      *)
(* parser gave it (so it names the file path only if the parser's text     *)
(* does); a failure return with an empty error text prints an error that   *)
(* names the file path; both exit with status 1 and the loop is never      *)
(* entered.  A warning is logged; with no error and a success return the   *)
(* load does not end the process: control is in scene construction, and    *)
(* the process ends only by a failed ray-tracing initialisation or by      *)
(* status 0 after the loop.                                                *)
(***************************************************************************)
C2_LoadOutcomes ==
    Loaded =>
        /\ warn => OnStdout("Warning loading model: ")
        /\ err # <<>> =>
              /\ Exited(1) /\ ~LoopEntered
              /\ out[Len(out)].stream = "stderr"
              /\ Mentions(out[Len(out)].text, "Error loading model: ")
              /\ \A j \in 1..Len(err) : Mentions(out[Len(out)].text, err[j])
        /\ (err = <<>> /\ ~ret) =>
              /\ Exited(1) /\ ~LoopEntered
              /\ out[Len(out)].stream = "stderr"
              /\ Mentions(out[Len(out)].text, argv(1))
        /\ (err = <<>> /\ ret) =>
              /\ "ospInit" \notin called => (status = "running" /\ pc \in {"flatten", "ospInit"})
              /\ status = "exited" => (exit_code = 0 /\ LoopEntered)
              /\ status = "aborted" => "ospInit" \in failures
              /\ ~OnStderr("Error loading model: ")
              /\ ~OnStderr(argv(1))

C2_Witness ==
    Loaded /\ err # <<>> /\ ~Mentions(err, argv(1)) /\ Exited(1) /\ ~OnStderr(argv(1))

(***************************************************************************)
(* C3.  An escape key-down drained while the overlay does not capture the  *)
(* keyboard sets the termination flag at once, the flag stays set and no   *)
(* further iteration is started; an escape key-down drained while the      *)
(* overlay captures the keyboard leaves the flag as it was.                *)
(***************************************************************************)
C3_EscapeTerminates ==
    /\ [][(pc = "inspect" /\ IsEscapeDown(event) /\ ~wantKb) => done']_vars
    /\ [][done => (done' /\ frame' = frame)]_vars
    /\ [][(pc = "inspect" /\ IsEscapeDown(event) /\ wantKb) => (done' = done)]_vars

C3_Witness ==
    /\ pc = "poll" /\ polled = 1 /\ inspected = 1
    /\ IsEscapeDown(event) /\ ~wantKb /\ done /\ frame = 2

(***************************************************************************)
(* C4.  The loop state is the boolean done.  It changes only from FALSE to *)
(* TRUE, only while an event is inspected, and only for a quit event, an   *)
(* escape key-down not captured by the overlay, or a close event of the    *)
(* viewer's own window; each of these three sets it.                       *)
(***************************************************************************)
C4_Terminating(ev) ==
    \/ ev.type = "SDL_QUIT"
    \/ (IsEscapeDown(ev) /\ ~wantKb)
    \/ IsOwnWindowClose(ev)

C4_TwoStateLoop ==
    /\ [](done \in BOOLEAN)
    /\ [][(done' # done) => (~done /\ done' /\ pc = "inspect" /\ C4_Terminating(event))]_vars
    /\ [][(pc = "inspect" /\ C4_Terminating(event)) => done']_vars

C4_Witness ==
    /\ pc = "poll" /\ polled = 2 /\ inspected = 2 /\ done
    /\ IsOwnWindowClose(event)

(***************************************************************************)
(* C5 as stated.  Once an initialisation call has failed the loop is never *)
(* entered, and the process ends with a non-zero status and a report on    *)
(* stderr.                                                                 *)
(***************************************************************************)
C5_InitFailuresFatal ==
    failures # {} =>
        /\ ~LoopEntered
        /\ status # "running" =>
              (NonZeroEnd /\ \E i \in 1..Len(out) : out[i].stream = "stderr")

(***************************************************************************)
(* C6 as stated.  In the second or a later iteration, when no pointer      *)
(* event reached the camera during the drain, the camera push neither      *)
(* commits the camera again nor changes its parameters.                    *)
(***************************************************************************)
C6_NoReuploadWhenUnchanged ==
    [][(pc = "camera_push" /\ frame >= 2 /\ mouseCalls = 0) =>
          (cameraCommits' = cameraCommits /\ osp_camera' = osp_camera)]_vars

(***************************************************************************)
(* C7, the part both statements share.  Inside the loop body the completed *)
(* phases are exactly the first phases of Order, as many as the position   *)
(* of control says; a finished iteration has completed all of Order once;  *)
(* the overlay has seen every event the application has inspected.         *)
(***************************************************************************)
C7_PhaseOrder ==
    /\ IsPrefix(steps, Order)
    /\ InLoopBody => Len(steps) = PhasesBefore(pc)
    /\ (pc = "while" /\ LoopEntered) => steps = Order
    /\ inspected <= uiSeen
    /\ uiSeen <= polled
    /\ pc = "inspect" => uiSeen = inspected + 1

(***************************************************************************)
(* C7 as stated.  The phase order, and the camera is updated from pointer  *)
(* events only after the drain is complete.                                *)
(***************************************************************************)
C7_Original ==
    /\ []C7_PhaseOrder
    /\ [][(mouseCalls' # mouseCalls /\ frame' = frame) => (Len(steps) >= 1 /\ steps[1] = "drain")]_vars

(***************************************************************************)
(* C7 as amended.  The phase order, and the camera is updated inside the   *)
(* drain: once for each pointer event the overlay does not capture, when   *)
(* that event is inspected (after the overlay has seen it), before the     *)
(* drain is complete; after the drain the camera does not change.          *)
(***************************************************************************)
C7_IterationOrder ==
    /\ []C7_PhaseOrder
    /\ [][(mouseCalls' # mouseCalls /\ frame' = frame) =>
             /\ pc = "inspect" /\ steps = <<>> /\ uiSeen = inspected + 1
             /\ mouseCalls' = mouseCalls + 1
             /\ ~wantMouse /\ event.type \in {"SDL_MOUSEMOTION", "SDL_MOUSEWHEEL"}]_vars
    /\ [][(camera' # camera) => (mouseCalls' = mouseCalls + 1)]_vars

C7_Witness == pc = "while" /\ frame = 2 /\ steps = Order /\ mouseCalls = 2 /\ camera # 0

(***************************************************************************)
(* C8.  fb is read only while the frame buffer is mapped; every map is     *)
(* followed by one unmap before the iteration ends; no clear or render     *)
(* starts or runs while the frame buffer is mapped; at most one render is  *)
(* in flight.                                                              *)
(***************************************************************************)
C8_ScopedMap ==
    /\ ~staleRead
    /\ fbMapped <=> (fb = "mapped")
    /\ pc \in {"upload", "unmap"} => fbMapped
    /\ fbMapped => pc \in {"upload", "unmap"}
    /\ pc \in {"clear", "render", "rendering"} => ~fbMapped
    /\ maps = unmaps + (IF fbMapped THEN 1 ELSE 0)
    /\ pc = "while" => (maps = frame /\ unmaps = frame)
    /\ inFlight <= 1
    /\ inFlight = 1 <=> pc = "rendering"

C8_Witness == pc = "unmap" /\ fbMapped /\ frame = 2 /\ texture = fbImage /\ maps = 2

(***************************************************************************)
(* C9.  The frame buffer is created at most once and the scene committed   *)
(* at most once; both have happened exactly once whenever the loop has     *)
(* been entered or a render has started.                                   *)
(***************************************************************************)
C9_SetupOnce ==
    /\ worldCommits <= 1
    /\ fbCreates <= 1
    /\ (LoopEntered \/ renders > 0 \/ inFlight > 0 \/ pc = "while") =>
          (worldCommits = 1 /\ fbCreates = 1)
    /\ renders <= frame

C9_Witness ==
    /\ pc = "poll" /\ event.wev = "SDL_WINDOWEVENT_RESIZED" /\ inspected = polled
    /\ renders >= 1 /\ worldCommits = 1 /\ fbCreates = 1

(***************************************************************************)
(* C10 as stated.  Whenever the process has ended after SDL_Init succeeded *)
(* everything acquired has been torn down, in the reverse order of its     *)
(* acquisition.                                                            *)
(***************************************************************************)
C10_TeardownOnEveryExit ==
    (status # "running" /\ Len(acquired) >= 1) => released = Reverse(acquired)

====
